---- MODULE Spec2Model ----
(***************************************************************************)
(* A model of fin_db: the two pullers (LSEGPuller, YFinPuller) with their  *)
(* batching, retry loop, validation and normalisation, and the             *)
(* instrument_id encoder with its ISIN check.                              *)
(*                                                                         *)
(* Python strings that are inspected character by character (asset class,  *)
(* code, ISIN) are sequences of one-character strings.  DataFrames are     *)
(* records holding their column labels, their index and their cells; a     *)
(* cell is a number or the missing value NaN.  A long-format DataFrame is  *)
(* a sequence of rows.                                                     *)
(***************************************************************************)
EXTENDS Integers, Sequences, FiniteSets, TLC

VARIABLES
  \* ---- the puller object and one histpull call on it
  kind,            \* "LSEG" | "YFIN": which class was constructed
  tickers,         \* self.tickers
  sdate,           \* self.sdate
  edate,           \* self.edate
  batch_size,      \* self.batch_size
  max_retries,     \* self.max_retries
  batches,         \* self.batches
  pc,              \* position: "new" | "idle" | "loop" | "retry" | "concat" | "returned" | "raised"
  fields,          \* histpull's fields after the str -> list wrap
  fi,              \* index of the field of the outer loop (LSEG), 1-based
  bi,              \* index of the batch of the loop, 1-based
  attempt,         \* _LSEG_pull / _yfin_pull: attempt
  last_exception,  \* _LSEG_pull / _yfin_pull: last_exception
  frames,          \* histpull: frames
  outcome,         \* what the constructor or histpull gave the caller
  trace,           \* observed history: adapter calls, pauses, job ends
  lastData,        \* observed: the provider response the latest succeeded job normalised
  lastFailure,     \* observed: how the latest failed attempt of the job failed
  \* ---- instrument_id
  id_args,         \* the arguments of the latest call
  id_out,          \* its outcome
  id_log           \* observed: the calls made so far, each with its outcome

vars == <<kind, tickers, sdate, edate, batch_size, max_retries, batches, pc,
          fields, fi, bi, attempt, last_exception, frames, outcome, trace,
          lastData, lastFailure, id_args, id_out, id_log>>

pullerVars == <<kind, tickers, sdate, edate, batch_size, max_retries, batches,
                pc, fields, fi, bi, attempt, last_exception, frames, outcome,
                trace, lastData, lastFailure>>

idVars == <<id_args, id_out, id_log>>

\* ------------------------------------------------------------------ bounds
MaxTickers == 2
MaxBatchSize == 2
MaxRetries == 2
NumDates == 2
MaxSplitTickers == 5
MaxSplitBatchSize == 6

\* ----------------------------------------------------------------- helpers
\* A cell of a DataFrame: a number, or the missing value NaN
NaN == [na |-> TRUE, v |-> 0]
Num(x) == [na |-> FALSE, v |-> x]
IsNa(x) == x.na
None == "None"

Min(a, b) == IF a <= b THEN a ELSE b
Max(a, b) == IF a >= b THEN a ELSE b

RECURSIVE Flatten(_)
Flatten(ss) == IF ss = <<>> THEN <<>> ELSE Head(ss) \o Flatten(Tail(ss))

\* Python's s[a:b] for 0 <= a, 0 <= b
Slice(s, a, b) == SubSeq(s, a + 1, Min(b, Len(s)))

\* math.ceil(n / d) for n >= 0 and d # 0 (true division, then ceiling)
CeilDiv(n, d) == IF d > 0 THEN (n + d - 1) \div d ELSE 0 - (n \div (0 - d))

\* ---------------------------------------------------------- Field Registry
FIELDS ==
  ("close"  :> [lseg |-> "TR.CLOSEPRICE(Adjusted=0)", yfin |-> "raw_close",
                scale |-> "1"]) @@
  ("totret" :> [lseg |-> "TR.TotalReturn", yfin |-> "totret",
                scale |-> "0.01"])

\* ------------------------------------------------------------------ Batcher
\* A faulty variant of _split_batches: the slices stop one short of the end of the list
SplitBatchesEndOffByOne(tk, bs) ==
  IF bs = 0 THEN [raised |-> "ZeroDivisionError"]
  ELSE [raised |-> "",
        value |-> [i \in 1 .. Max(0, CeilDiv(Len(tk), bs)) |->
                     Slice(tk, (i - 1) * bs, Min(i * bs, Len(tk) - 1))]]

\* _split_batches: the list of batches, or ZeroDivisionError for batch_size 0
SplitBatches(tk, bs) ==
  IF bs = 0 THEN [raised |-> "ZeroDivisionError"]
  ELSE [raised |-> "",
        value |-> [i \in 1 .. Max(0, CeilDiv(Len(tk), bs)) |->
                     Slice(tk, (i - 1) * bs, Min(i * bs, Len(tk)))]]

\* ------------------------------------------- provider responses (LSEG side)
\* A wide DataFrame of rd.get_history: one column per instrument, one row per
\* date; val[r][c] is the cell of row r and column c.
\* The values a provider can put into the cell of date d and column c
Price(d, c) == Num(10 * d + c)

HoleCell(d, c) == IF (d + c) % 2 = 0 THEN NaN ELSE Price(d, c)

DeadLastCell(n, d, c) == IF c = n THEN NaN ELSE Price(d, c)

\* Adj Close, Stock Splits (a 2-for-1 split on date 2), nothing at all, and
\* Adj Close without the leading day
AdjPrice(d, c) == Num(1 + (d % 2))

SplitRatio(d, c) == IF d = 2 THEN Num(2) ELSE Num(0)

LeadingMissing(d, c) == IF d = 0 THEN NaN ELSE AdjPrice(d, c)

CellOf(pattern, n, d, c) ==
  CASE pattern = "price"    -> Price(d, c)
    [] pattern = "holes"    -> HoleCell(d, c)
    [] pattern = "deadlast" -> DeadLastCell(n, d, c)
    [] pattern = "adj"      -> AdjPrice(d, c)
    [] pattern = "adjlate"  -> LeadingMissing(d, c)
    [] pattern = "splits"   -> SplitRatio(d, c)
    [] OTHER                -> NaN

\* The cells of a frame of n columns: row by row, the named pattern of values
Cells(pattern, n, index) ==
  [r \in 1 .. Len(index) |-> [c \in 1 .. n |-> CellOf(pattern, n, index[r], c)]]

WideFrame(cols, index, pattern) ==
  [kind |-> "frame", cols |-> cols, index |-> index,
   val |-> Cells(pattern, Len(cols), index)]

DateSeq(lo, hi) == [r \in 1 .. (hi - lo + 1) |-> lo + r - 1]

LsegFull(batch) == WideFrame(batch, DateSeq(1, NumDates), "price")

LsegHoles(batch) == WideFrame(batch, DateSeq(1, NumDates), "holes")

LsegDeadColumn(batch) == WideFrame(batch, DateSeq(1, NumDates), "deadlast")

LsegNoRows(batch) == WideFrame(batch, <<>>, "price")

LsegShort(batch) ==
  WideFrame(SubSeq(batch, 1, Len(batch) - 1), DateSeq(1, NumDates), "price")

\* What one rd.get_history call can give: an exception, None, or a frame
LsegResponses(batch) ==
  { [kind |-> "raise", exc |-> "ConnectionError"],
    [kind |-> "none"],
    LsegFull(batch), LsegHoles(batch), LsegDeadColumn(batch),
    LsegNoRows(batch), LsegShort(batch) }

\* DataFrame.empty: no rows or no columns
FrameEmpty(data) == Len(data.index) = 0 \/ Len(data.cols) = 0

\* data[col].notna().sum()
NotNaCount(data, c) ==
  Cardinality({r \in 1 .. Len(data.index) : ~IsNa(data.val[r][c])})

\* LSEGPuller._validate_lseg_data
ValidateLsegData(data, tk) ==
  IF data.kind = "none" \/ FrameEmpty(data) THEN FALSE
  ELSE IF Len(data.cols) # Len(tk) THEN FALSE
  ELSE IF \E c \in 1 .. Len(data.cols) : NotNaCount(data, c) = 0 THEN FALSE
  ELSE TRUE

\* data.melt(ignore_index=False, var_name='RIC', value_name='value'): column
\* by column, each column's rows in index order
Melt(data) ==
  LET nr == Len(data.index)
  IN  [k \in 1 .. (nr * Len(data.cols)) |->
         LET c == ((k - 1) \div nr) + 1
             r == ((k - 1) % nr) + 1
         IN  [Date |-> data.index[r], RIC |-> data.cols[c],
              value |-> data.val[r][c]]]

NotMissing(row) == ~IsNa(row.value)

\* .dropna()
DropNa(rows) == SelectSeq(rows, NotMissing)

\* _LSEG_pull, lines 131-147: melt, dropna, tag, reorder, rename
LsegNormalize(data, field) ==
  LET long == DropNa(Melt(data))
  IN  [k \in 1 .. Len(long) |->
         [date |-> long[k].Date, identifier |-> long[k].RIC, source |-> "LSEG",
          field |-> field, scale |-> FIELDS[field].scale,
          value |-> long[k].value]]

\* One pass of the try block of _LSEG_pull on the adapter's response:
\* "ok" with the normalised rows, "invalid" (validation returned False), or
\* "error" with the exception caught by `except Exception`
LsegAttempt(resp, batch, field) ==
  IF resp.kind = "raise" THEN [res |-> "error", exc |-> resp.exc]
  ELSE IF ValidateLsegData(resp, batch)
       THEN [res |-> "ok", rows |-> LsegNormalize(resp, field)]
       ELSE [res |-> "invalid"]

\* ------------------------------------------ provider responses (Yahoo side)
\* A DataFrame of yf.download with (price, ticker) columns: for each of
\* Close, Adj Close and Stock Splits, cell[r][c] belongs to row r and to
\* ticker cols[c].  The values are such that the percentage change of
\* Adj Close is a whole number.
IsIn(x, s) == \E i \in DOMAIN s : s[i] = x

\* Position of x in s (s.index(x) + 1)
IndexOf(x, s) == CHOOSE i \in DOMAIN s : s[i] = x /\ \A j \in 1 .. (i - 1) : s[j] # x

YfinFrame(cols, index, close, adj, splits) ==
  [kind |-> "frame", cols |-> cols, index |-> index,
   Close |-> Cells(close, Len(cols), index),
   AdjClose |-> Cells(adj, Len(cols), index),
   StockSplits |-> Cells(splits, Len(cols), index)]

\* download_and_process, lines 106-109: one more leading day for totret
YfinStart(flds) == IF IsIn("totret", flds) THEN 0 ELSE 1

YfinFull(batch, flds) ==
  YfinFrame(batch, DateSeq(YfinStart(flds), NumDates), "price", "adj", "splits")

YfinHoles(batch, flds) ==
  YfinFrame(batch, DateSeq(YfinStart(flds), NumDates), "holes", "adjlate",
            "splits")

YfinAllNaN(batch, flds) ==
  YfinFrame(batch, DateSeq(YfinStart(flds), NumDates), "missing", "missing",
            "missing")

YfinNoRows(batch, flds) == YfinFrame(batch, <<>>, "price", "adj", "splits")

YfinMissingFirst(batch, flds) ==
  YfinFrame(Tail(batch), DateSeq(YfinStart(flds), NumDates), "price", "adj",
            "splits")

\* What one yf.download call can give: an exception or a frame
YfinResponses(batch, flds) ==
  { [kind |-> "raise", exc |-> "ConnectionError"],
    YfinFull(batch, flds), YfinHoles(batch, flds), YfinAllNaN(batch, flds),
    YfinNoRows(batch, flds), YfinMissingFirst(batch, flds) }

\* data.isna().all().all()
YfinAllNa(data) ==
  \A r \in 1 .. Len(data.index) : \A c \in 1 .. Len(data.cols) :
    IsNa(data.Close[r][c]) /\ IsNa(data.AdjClose[r][c]) /\ IsNa(data.StockSplits[r][c])

\* .shift(-1).fillna(1).replace(0, 1) of the Stock Splits column, at row r
ShiftedSplit(data, c, r) ==
  IF r = Len(data.index) THEN 1
  ELSE LET x == data.StockSplits[r + 1][c]
       IN  IF IsNa(x) \/ x.v = 0 THEN 1 ELSE x.v

\* .iloc[::-1].cumprod().iloc[::-1] at row r: the product over the rows from r on
RECURSIVE SplitMult(_, _, _)
SplitMult(data, c, r) ==
  IF r > Len(data.index) THEN 1
  ELSE ShiftedSplit(data, c, r) * SplitMult(data, c, r + 1)

\* ticker_data['Close'] * ticker_data['split_mult']
RawClose(data, c, r) ==
  IF IsNa(data.Close[r][c]) THEN NaN
  ELSE Num(data.Close[r][c].v * SplitMult(data, c, r))

\* ticker_data['Adj Close'].pct_change() * 100 at row r
TotRet(data, c, r) ==
  IF r = 1 THEN NaN
  ELSE LET prev == data.AdjClose[r - 1][c]
           cur  == data.AdjClose[r][c]
       IN  IF IsNa(prev) \/ IsNa(cur) THEN NaN
           ELSE Num(((cur.v - prev.v) * 100) \div prev.v)

YfinValue(data, c, f, r) ==
  IF f = "close" THEN RawClose(data, c, r) ELSE TotRet(data, c, r)

\* The rows of ticker_data that are kept: iloc[1:] when totret is asked for
YfinKeptRows(data, flds) ==
  IF IsIn("totret", flds) THEN 2 .. Len(data.index) ELSE 1 .. Len(data.index)

\* A faulty variant: one scale for the whole frame, that of the first field
YfinTickerLongOneScale(data, c, flds) ==
  LET first == IF IsIn("totret", flds) THEN 2 ELSE 1
      nr    == Max(0, Len(data.index) - first + 1)
  IN  [k \in 1 .. (nr * Len(flds)) |->
         LET f == flds[((k - 1) \div nr) + 1]
             r == first + ((k - 1) % nr)
         IN  [date |-> data.index[r], identifier |-> data.cols[c],
              source |-> "YAHOO", field |-> f, scale |-> FIELDS[flds[1]].scale,
              value |-> YfinValue(data, c, f, r)]]

\* Lines 143-172 for the ticker of column c: keep the asked fields, rename,
\* melt field by field, tag with scale and source
YfinTickerLong(data, c, flds) ==
  LET first == IF IsIn("totret", flds) THEN 2 ELSE 1
      nr    == Max(0, Len(data.index) - first + 1)
  IN  [k \in 1 .. (nr * Len(flds)) |->
         LET f == flds[((k - 1) \div nr) + 1]
             r == first + ((k - 1) % nr)
         IN  [date |-> data.index[r], identifier |-> data.cols[c],
              source |-> "YAHOO", field |-> f, scale |-> FIELDS[f].scale,
              value |-> YfinValue(data, c, f, r)]]

\* download_and_process: the return statement sits inside the loop over the
\* tickers, so the loop body runs for the first ticker of the batch only
DownloadAndProcess(resp, tk, flds) ==
  IF resp.kind = "raise" THEN [res |-> "error", exc |-> resp.exc]
  ELSE IF FrameEmpty(resp) \/ YfinAllNa(resp)
       THEN [res |-> "error", exc |-> "ValueError"]
  ELSE IF Len(tk) = 0 THEN [res |-> "ok", rows |-> None]
  ELSE IF ~IsIn(tk[1], resp.cols) THEN [res |-> "error", exc |-> "KeyError"]
  ELSE [res |-> "ok", rows |-> YfinTickerLong(resp, IndexOf(tk[1], resp.cols), flds)]

\* ------------------------------------------------- the dates of a puller
\* A Python str is a sequence of one-character strings.
DigitChars == <<"0", "1", "2", "3", "4", "5", "6", "7", "8", "9">>

IsDigit(ch) == IsIn(ch, DigitChars)

\* int(digit) of a digit character
IntOf(ch) == IndexOf(ch, DigitChars) - 1

\* int(s) of a string of digits
RECURSIVE IntOfDigits(_)
IntOfDigits(str) ==
  IF str = <<>> THEN 0
  ELSE 10 * IntOfDigits(SubSeq(str, 1, Len(str) - 1)) + IntOf(str[Len(str)])

\* str.split(sep)
RECURSIVE SplitOn(_, _)
SplitOn(str, sep) ==
  IF ~IsIn(sep, str) THEN <<str>>
  ELSE LET i == IndexOf(sep, str)
       IN  <<SubSeq(str, 1, i - 1)>> \o SplitOn(SubSeq(str, i + 1, Len(str)), sep)

\* The directives of strptime as _strptime.TimeRE spells them:
\* %Y is \d\d\d\d
MatchesYear(p) == Len(p) = 4 /\ \A i \in 1 .. 4 : IsDigit(p[i])

\* %m is 1[0-2]|0[1-9]|[1-9]
MatchesMonth(p) ==
  \/ Len(p) = 2 /\ p[1] = "1" /\ p[2] \in {"0", "1", "2"}
  \/ Len(p) = 2 /\ p[1] = "0" /\ IsDigit(p[2]) /\ p[2] # "0"
  \/ Len(p) = 1 /\ IsDigit(p[1]) /\ p[1] # "0"

\* %d is 3[0-1]|[1-2]\d|0[1-9]|[1-9]| [1-9]
MatchesDay(p) ==
  \/ Len(p) = 2 /\ p[1] = "3" /\ p[2] \in {"0", "1"}
  \/ Len(p) = 2 /\ p[1] \in {"1", "2"} /\ IsDigit(p[2])
  \/ Len(p) = 2 /\ p[1] \in {"0", " "} /\ IsDigit(p[2]) /\ p[2] # "0"
  \/ Len(p) = 1 /\ IsDigit(p[1]) /\ p[1] # "0"

IsLeap(y) == y % 4 = 0 /\ (y % 100 # 0 \/ y % 400 = 0)

DaysInMonth(y, m) ==
  IF m = 2 THEN (IF IsLeap(y) THEN 29 ELSE 28)
  ELSE IF m \in {4, 6, 9, 11} THEN 30 ELSE 31

\* The value of self.sdate / self.edate before __init__ assigns it
NoDate == [year |-> 0, month |-> 0, day |-> 0]

\* dt.datetime.strptime(text, "%Y-%m-%d"): the whole text has to match
\* %Y-%m-%d, and the numbers have to be a date of the calendar; ValueError
\* otherwise
StrpTime(text) ==
  LET parts == SplitOn(text, "-")
  IN  IF ~(/\ Len(parts) = 3 /\ MatchesYear(parts[1])
           /\ MatchesMonth(parts[2]) /\ MatchesDay(parts[3]))
      THEN [raised |-> "ValueError", msg |-> "time data does not match format"]
      ELSE LET y == IntOfDigits(parts[1])
               m == IntOfDigits(parts[2])
               d == IntOfDigits(IF parts[3][1] = " " THEN Tail(parts[3]) ELSE parts[3])
           IN  IF y < 1 THEN [raised |-> "ValueError", msg |-> "year is out of range"]
               ELSE IF d > DaysInMonth(y, m)
                    THEN [raised |-> "ValueError",
                          msg |-> "day is out of range for month"]
               ELSE [raised |-> "", value |-> [year |-> y, month |-> m, day |-> d]]

\* ------------------------------------------------------- the puller objects
Universe == <<"AAA", "BBB", "CCC", "DDD", "EEE", "FFF", "GGG", "HHH">>

TickerLists(n) == {SubSeq(Universe, 1, k) : k \in 0 .. Min(n, Len(Universe))}

Kinds == {"LSEG", "YFIN"}

\* The date texts given to the constructors: well-formed ones, one without
\* the leading zeros, and ones strptime refuses
Jan5 == <<"2", "0", "2", "4", "-", "0", "1", "-", "0", "5">>
Jan5Short == <<"2", "0", "2", "4", "-", "1", "-", "5">>
Feb29 == <<"2", "0", "2", "4", "-", "0", "2", "-", "2", "9">>
Feb30 == <<"2", "0", "2", "4", "-", "0", "2", "-", "3", "0">>
Month13 == <<"2", "0", "2", "4", "-", "1", "3", "-", "0", "1">>
Slashes == <<"0", "5", "/", "0", "1", "/", "2", "0", "2", "4">>

DateInputs == {Jan5, Jan5Short, Feb29, Feb30, Month13, Slashes, <<>>}

\* The dates of the pullers whose histpull is followed
PullDates == {Jan5, Jan5Short, Feb30}

\* histpull's argument: one field name (a str) or a list of field names
FieldRequests ==
  { [isstr |-> TRUE, val |-> "close"],
    [isstr |-> TRUE, val |-> "volume"],
    [isstr |-> FALSE, val |-> <<"totret">>],
    [isstr |-> FALSE, val |-> <<"close", "totret">>],
    [isstr |-> FALSE, val |-> <<"close", "volume">>],
    [isstr |-> FALSE, val |-> <<"volume", "close">>] }

Event(e, u) == [ev |-> e, fi |-> fi, bi |-> bi, unit |-> u]

PullerInit ==
  /\ kind = "" /\ tickers = <<>> /\ batch_size = 0 /\ max_retries = 0
  /\ sdate = NoDate /\ edate = NoDate
  /\ batches = <<>> /\ pc = "new" /\ fields = <<>> /\ fi = 1 /\ bi = 1
  /\ attempt = 1 /\ last_exception = None /\ frames = <<>>
  /\ outcome = [status |-> "none"] /\ trace = <<>> /\ lastData = [kind |-> "none"]
  /\ lastFailure = None

Init ==
  /\ PullerInit
  /\ id_args = [fn |-> "none"] /\ id_out = [status |-> "none"]
  /\ id_log = <<>>

\* LSEGPuller.__init__ / YFinPuller.__init__ (the two bodies are the same but
\* for the refinitiv import guard): store the tickers, parse the two dates,
\* store the batch size, split the batches, store max_retries.  An exception
\* leaves the later attributes unassigned.
Construct(k, tk, sd, ed, bs, mr) ==
  /\ pc = "new"
  /\ kind' = k /\ tickers' = tk
  /\ LET s  == StrpTime(sd)
         e  == StrpTime(ed)
         sb == SplitBatches(tk, bs)
     IN  IF s.raised # ""
         THEN /\ pc' = "raised"
              /\ outcome' = [status |-> "raised", at |-> "__init__",
                             exc |-> s.raised, msg |-> s.msg]
              /\ UNCHANGED <<sdate, edate, batch_size, batches, max_retries>>
         ELSE IF e.raised # ""
         THEN /\ pc' = "raised"
              /\ sdate' = s.value
              /\ outcome' = [status |-> "raised", at |-> "__init__",
                             exc |-> e.raised, msg |-> e.msg]
              /\ UNCHANGED <<edate, batch_size, batches, max_retries>>
         ELSE IF sb.raised # ""
         THEN /\ pc' = "raised"
              /\ sdate' = s.value /\ edate' = e.value /\ batch_size' = bs
              /\ outcome' = [status |-> "raised", at |-> "__init__",
                             exc |-> sb.raised, msg |-> "division by zero"]
              /\ UNCHANGED <<batches, max_retries>>
         ELSE /\ pc' = "idle"
              /\ sdate' = s.value /\ edate' = e.value /\ batch_size' = bs
              /\ batches' = sb.value
              /\ max_retries' = mr
              /\ UNCHANGED outcome
  /\ UNCHANGED <<fields, fi, bi, attempt, last_exception, frames, trace, lastData,
                 lastFailure>>
  /\ UNCHANGED idVars

\* A faulty variant of histpull: only the first field is checked
HistpullChecksFirstOnly(req) ==
  /\ pc = "idle"
  /\ LET flds == IF req.isstr THEN <<req.val>> ELSE req.val
     IN  /\ fields' = flds
         /\ IF flds[1] \notin DOMAIN FIELDS
            THEN /\ pc' = "raised"
                 /\ outcome' = [status |-> "raised", at |-> "histpull",
                                exc |-> "ValueError", msg |-> "Field not supported"]
                 /\ UNCHANGED <<frames, fi, bi>>
            ELSE /\ pc' = "loop" /\ frames' = <<>> /\ fi' = 1 /\ bi' = 1
                 /\ UNCHANGED outcome
  /\ UNCHANGED <<kind, tickers, sdate, edate, batch_size, max_retries, batches, attempt,
                 last_exception, trace, lastData, lastFailure>>
  /\ UNCHANGED idVars

\* histpull, lines 88-94 (LSEG) / 74-80 (Yahoo): wrap a str, check every field
\* against FIELDS, start with no frames
Histpull(req) ==
  /\ pc = "idle"
  /\ LET flds == IF req.isstr THEN <<req.val>> ELSE req.val
     IN  /\ fields' = flds
         /\ IF \E i \in DOMAIN flds : flds[i] \notin DOMAIN FIELDS
            THEN /\ pc' = "raised"
                 /\ outcome' = [status |-> "raised", at |-> "histpull",
                                exc |-> "ValueError", msg |-> "Field not supported"]
                 /\ UNCHANGED <<frames, fi, bi>>
            ELSE /\ pc' = "loop" /\ frames' = <<>> /\ fi' = 1 /\ bi' = 1
                 /\ UNCHANGED outcome
  /\ UNCHANGED <<kind, tickers, sdate, edate, batch_size, max_retries, batches, attempt,
                 last_exception, trace, lastData, lastFailure>>
  /\ UNCHANGED idVars

\* A faulty variant: every adapter call asks for all the fields
UnitAllFields == fields

\* The field-unit of the adapter call of the current job: one field for LSEG,
\* all the fields for Yahoo
Unit == IF kind = "LSEG" THEN <<fields[fi]>> ELSE fields

\* Whether the loops of histpull have a next (field, batch) to visit
HasJob ==
  IF kind = "LSEG" THEN fi <= Len(fields) /\ bi <= Len(batches)
  ELSE bi <= Len(batches)

\* A faulty variant: the loop over the fields inside the loop over the batches
AfterJobBatchMajor ==
  IF kind = "LSEG"
  THEN IF fi >= Len(fields) THEN [fi |-> 1, bi |-> bi + 1]
       ELSE [fi |-> fi + 1, bi |-> bi]
  ELSE [fi |-> fi, bi |-> bi + 1]

\* The loop position after the current job: the inner loop over the batches,
\* inside the loop over the fields for LSEG
AfterJob ==
  IF kind = "LSEG" /\ bi >= Len(batches) THEN [fi |-> fi + 1, bi |-> 1]
  ELSE [fi |-> fi, bi |-> bi + 1]

\* histpull enters _LSEG_pull / _yfin_pull for the next job: attempt = 1,
\* last_exception = None
EnterJob ==
  /\ pc = "loop" /\ HasJob
  /\ pc' = "retry" /\ attempt' = 1 /\ last_exception' = None
  /\ lastFailure' = None
  /\ trace' = Append(trace, Event("start", Unit))
  /\ UNCHANGED <<kind, tickers, sdate, edate, batch_size, max_retries, batches, fields, fi, bi,
                 frames, outcome, lastData>>
  /\ UNCHANGED idVars

\* One pass of the try block on the provider's response
AttemptResult(resp) ==
  IF kind = "LSEG" THEN LsegAttempt(resp, batches[bi], fields[fi])
  ELSE DownloadAndProcess(resp, batches[bi], fields)

\* What the provider can answer to the adapter call of the current job
Responses ==
  IF pc # "retry" THEN {}
  ELSE IF kind = "LSEG" THEN LsegResponses(batches[bi])
  ELSE YfinResponses(batches[bi], fields)

\* A faulty variant: a failed attempt without its pause
FailedAttemptEventsNoPause == <<Event("call", Unit)>>

\* What a failed attempt is seen to do: the adapter call, then
\* time.sleep(SLEEP)
FailedAttemptEvents == <<Event("call", Unit), Event("pause", Unit)>>

\* A faulty variant: a validation failure does not count as an attempt
NextAttemptErrorsOnly(r) == IF r.res = "error" THEN attempt + 1 ELSE attempt

\* attempt += 1, in the else branch of the validation and in the except block
NextAttempt(r) == attempt + 1

\* A faulty variant of the step below: histpull does not pause after a job
\* that succeeded
AttemptNoPauseAfterSuccess(resp) ==
  /\ pc = "retry" /\ attempt <= max_retries
  /\ LET r == AttemptResult(resp)
     IN  IF r.res = "ok"
         THEN /\ frames' = Append(frames, r.rows)
              /\ lastData' = resp
              /\ trace' = trace \o <<Event("call", Unit),
                                     Event("succeeded", Unit)>>
              /\ pc' = "loop" /\ fi' = AfterJob.fi /\ bi' = AfterJob.bi
              /\ UNCHANGED <<attempt, last_exception, lastFailure>>
         ELSE /\ trace' = trace \o FailedAttemptEvents
              /\ attempt' = NextAttempt(r)
              /\ last_exception' = IF r.res = "error" THEN r.exc ELSE last_exception
              /\ lastFailure' = IF r.res = "error" THEN r.exc ELSE "invalid"
              /\ UNCHANGED <<pc, fi, bi, frames, lastData>>
  /\ UNCHANGED <<kind, tickers, sdate, edate, batch_size, max_retries, batches, fields, outcome>>
  /\ UNCHANGED idVars

\* One iteration of `while attempt <= self.max_retries`.  On success the rows
\* go back to histpull, which appends them, pauses and moves on; otherwise
\* the loop pauses and counts the attempt.
Attempt(resp) ==
  /\ pc = "retry" /\ attempt <= max_retries
  /\ LET r == AttemptResult(resp)
     IN  IF r.res = "ok"
         THEN /\ frames' = Append(frames, r.rows)
              /\ lastData' = resp
              /\ trace' = trace \o <<Event("call", Unit),
                                     Event("succeeded", Unit),
                                     Event("pause", Unit)>>
              /\ pc' = "loop" /\ fi' = AfterJob.fi /\ bi' = AfterJob.bi
              /\ UNCHANGED <<attempt, last_exception, lastFailure>>
         ELSE /\ trace' = trace \o FailedAttemptEvents
              /\ attempt' = NextAttempt(r)
              /\ last_exception' = IF r.res = "error" THEN r.exc ELSE last_exception
              /\ lastFailure' = IF r.res = "error" THEN r.exc ELSE "invalid"
              /\ UNCHANGED <<pc, fi, bi, frames, lastData>>
  /\ UNCHANGED <<kind, tickers, sdate, edate, batch_size, max_retries, batches, fields, outcome>>
  /\ UNCHANGED idVars

\* A faulty variant of the step below: the RuntimeError escapes histpull
ExhaustAborts ==
  /\ pc = "retry" /\ attempt > max_retries
  /\ trace' = Append(trace, Event("exhausted", Unit))
  /\ pc' = "raised"
  /\ outcome' = [status |-> "raised", at |-> "histpull", exc |-> "RuntimeError",
                 msg |-> "Failed to pull valid data"]
  /\ UNCHANGED <<kind, tickers, sdate, edate, batch_size, max_retries, batches, fields, attempt,
                 last_exception, frames, lastData, lastFailure, fi, bi>>
  /\ UNCHANGED idVars

\* A faulty variant of the step below: the job that used up its attempts is
\* started over
ExhaustStartsOver ==
  /\ pc = "retry" /\ attempt > max_retries
  /\ attempt' = 1
  /\ UNCHANGED <<kind, tickers, sdate, edate, batch_size, max_retries, batches, fields,
                 last_exception, frames, outcome, lastData, lastFailure, pc, fi, bi,
                 trace>>
  /\ UNCHANGED idVars

\* The while loop ends without a return: RuntimeError from last_exception,
\* caught by histpull's `except RuntimeError`, which logs and continues
Exhaust ==
  /\ pc = "retry" /\ attempt > max_retries
  /\ trace' = Append(trace, Event("exhausted", Unit))
  /\ pc' = "loop" /\ fi' = AfterJob.fi /\ bi' = AfterJob.bi
  /\ UNCHANGED <<kind, tickers, sdate, edate, batch_size, max_retries, batches, fields, attempt,
                 last_exception, frames, outcome, lastData, lastFailure>>
  /\ UNCHANGED idVars

\* pd.concat(frames, ignore_index=True): the rows of the frames one after
\* the other; pandas raises ValueError("No objects to concatenate") for an
\* empty list
Concat(fr) ==
  IF Len(fr) = 0
  THEN [status |-> "raised", at |-> "histpull", exc |-> "ValueError",
        msg |-> "No objects to concatenate"]
  ELSE [status |-> "returned", value |-> Flatten(fr)]

\* histpull's return statement, after the loops
Return ==
  /\ pc = "loop" /\ ~HasJob
  /\ outcome' = Concat(frames)
  /\ pc' = outcome'.status
  /\ UNCHANGED <<kind, tickers, sdate, edate, batch_size, max_retries, batches, fields, fi, bi,
                 attempt, last_exception, frames, trace, lastData, lastFailure>>
  /\ UNCHANGED idVars

Next ==
  \/ /\ pc = "new"
     /\ \E k \in Kinds, tk \in TickerLists(MaxTickers), sd \in PullDates,
           ed \in PullDates, bs \in (0 - 1) .. MaxBatchSize,
           mr \in 0 .. MaxRetries :
          Construct(k, tk, sd, ed, bs, mr)
  \/ \E req \in FieldRequests : Histpull(req)
  \/ EnterJob
  \/ \E resp \in Responses : Attempt(resp)
  \/ Exhaust
  \/ Return

Spec == Init /\ [][Next]_vars

\* ---- the same program, running: once histpull is entered, the interpreter
\* goes on to its next statement, and every adapter call comes back with a
\* value or an exception.  Constructing a puller and calling histpull are
\* up to the caller.  The pullers followed are those whose ticker count
\* times max_retries stays within MaxLiveCalls.
MaxLiveCalls == 4

AnyAttempt == \E resp \in Responses : Attempt(resp)

NextLive ==
  \/ /\ pc = "new"
     /\ \E k \in Kinds, tk \in TickerLists(MaxTickers), sd \in PullDates,
           ed \in PullDates, bs \in (0 - 1) .. MaxBatchSize,
           mr \in 0 .. MaxRetries :
          /\ Len(tk) * mr <= MaxLiveCalls
          /\ Construct(k, tk, sd, ed, bs, mr)
  \/ \E req \in FieldRequests : Histpull(req)
  \/ EnterJob
  \/ AnyAttempt
  \/ Exhaust
  \/ Return

SpecLive ==
  /\ Init /\ [][NextLive]_vars
  /\ WF_vars(EnterJob) /\ WF_vars(AnyAttempt) /\ WF_vars(Exhaust)
  /\ WF_vars(Return)

\* ------------------------------------------------------------ instrument_id
\* A Python str is a sequence of one-character strings.
UpperChars == <<"A", "B", "C", "D", "E", "F", "G", "H", "I", "J", "K", "L", "M",
                "N", "O", "P", "Q", "R", "S", "T", "U", "V", "W", "X", "Y", "Z">>

LowerChars == <<"a", "b", "c", "d", "e", "f", "g", "h", "i", "j", "k", "l", "m",
                "n", "o", "p", "q", "r", "s", "t", "u", "v", "w", "x", "y", "z">>

SpaceChars == {" ", "\t", "\n"}

IsUpper(ch) == IsIn(ch, UpperChars)
IsLower(ch) == IsIn(ch, LowerChars)

\* str.isalnum() on ASCII text: not empty, every character a letter or digit
IsAlnum(str) ==
  /\ Len(str) > 0
  /\ \A i \in DOMAIN str : IsDigit(str[i]) \/ IsUpper(str[i]) \/ IsLower(str[i])

\* str.upper() / str.lower()
UpperCh(ch) == IF IsLower(ch) THEN UpperChars[IndexOf(ch, LowerChars)] ELSE ch
LowerCh(ch) == IF IsUpper(ch) THEN LowerChars[IndexOf(ch, UpperChars)] ELSE ch
Upper(str) == [i \in DOMAIN str |-> UpperCh(str[i])]
Lower(str) == [i \in DOMAIN str |-> LowerCh(str[i])]

\* str.strip()
RECURSIVE LStrip(_)
LStrip(str) ==
  IF str # <<>> /\ Head(str) \in SpaceChars THEN LStrip(Tail(str)) ELSE str

RECURSIVE RStrip(_)
RStrip(str) ==
  IF str # <<>> /\ str[Len(str)] \in SpaceChars
  THEN RStrip(SubSeq(str, 1, Len(str) - 1)) ELSE str

Strip(str) == RStrip(LStrip(str))

\* str.ljust(width, fill)
LJust(str, width, fill) ==
  str \o [i \in 1 .. Max(0, width - Len(str)) |-> fill]

ASSET_CLASSES ==
  (<<"e", "q", "u", "i", "t", "y">> :> <<"E", "Q", "U">>) @@
  (<<"e", "t", "f">> :> <<"E", "T", "F">>) @@
  (<<"i", "n", "d", "e", "x">> :> <<"I", "N", "D">>) @@
  (<<"c", "r", "y", "p", "t", "o">> :> <<"C", "R", "Y">>) @@
  (<<"c", "u", "r", "r", "e", "n", "c", "y">> :> <<"C", "U", "R">>) @@
  (<<"c", "o", "m", "m", "o", "d", "i", "t", "y">> :> <<"C", "O", "M">>)

\* _ISIN_RE.fullmatch: ^[A-Z]{2}[A-Z0-9]{9}[0-9]$
IsinReFullmatch(isin) ==
  /\ Len(isin) = 12
  /\ \A i \in 1 .. 2 : IsUpper(isin[i])
  /\ \A i \in 3 .. 11 : IsUpper(isin[i]) \/ IsDigit(isin[i])
  /\ IsDigit(isin[12])

\* _valid_isin, lines 75-82: letters become the two digits of
\* ord(char) - ord("A") + 10, digits stay; the result is one digit string
ExpandChar(ch) ==
  IF IsDigit(ch) THEN <<IntOf(ch)>>
  ELSE LET n == (IndexOf(ch, UpperChars) - 1) + 10
       IN  <<n \div 10, n % 10>>

Expanded(isin) == Flatten([i \in DOMAIN isin |-> ExpandChar(isin[i])])

\* _valid_isin, lines 84-93: the loop over reversed(digits), from position i
\* down to 1, with the running `double` flag; the value is `total`
RECURSIVE LuhnLoop(_, _, _)
LuhnLoop(digits, i, double) ==
  IF i = 0 THEN 0
  ELSE LET num == digits[i]
           dbl == IF num * 2 > 9 THEN num * 2 - 9 ELSE num * 2
       IN  (IF double THEN dbl ELSE num) + LuhnLoop(digits, i - 1, ~double)

\* A faulty variant: `double` starting True
LuhnTotalDoubleFirst(digits) == LuhnLoop(digits, Len(digits), TRUE)

\* total for the digit string, `double` starting False
LuhnTotal(digits) == LuhnLoop(digits, Len(digits), FALSE)

\* A faulty variant of _valid_isin: the format alone, no checksum
ValidIsinFormatOnly(isin) == IsinReFullmatch(isin)

\* _valid_isin
ValidIsin(isin) ==
  IF ~IsinReFullmatch(isin) THEN FALSE
  ELSE LuhnTotal(Expanded(isin)) % 10 = 0

Raised(exc, msg) == [status |-> "raised", exc |-> exc, msg |-> msg]

\* A faulty variant of instrument_id: no padding of code and hash
InstrumentIdNoPadding(asset_class, code, hash_on) ==
  LET normalized_asset_class == Lower(Strip(asset_class))
  IN  IF normalized_asset_class \notin DOMAIN ASSET_CLASSES
      THEN Raised("ValueError", "Unsupported asset class")
      ELSE IF Len(code) = 0 THEN Raised("ValueError", "Code cannot be empty")
      ELSE IF Len(code) > 4 \/ ~IsAlnum(code)
           THEN Raised("ValueError", "Code must be <= 4 alphanumerical characters")
      ELSE IF normalized_asset_class = <<"e", "q", "u", "i", "t", "y">>
           THEN IF ValidIsin(hash_on)
                THEN [status |-> "returned",
                      value |-> ASSET_CLASSES[normalized_asset_class]
                                \o Upper(code) \o Upper(hash_on)]
                ELSE Raised("ValueError", "Invalid ISIN")
      ELSE Raised("NotImplementedError", "Hash creation not implemented")

\* A faulty variant of instrument_id: the code is checked before the asset
\* class
InstrumentIdCodeFirst(asset_class, code, hash_on) ==
  LET normalized_asset_class == Lower(Strip(asset_class))
  IN  IF Len(code) = 0 THEN Raised("ValueError", "Code cannot be empty")
      ELSE IF Len(code) > 4 \/ ~IsAlnum(code)
           THEN Raised("ValueError", "Code must be <= 4 alphanumerical characters")
      ELSE IF normalized_asset_class \notin DOMAIN ASSET_CLASSES
           THEN Raised("ValueError", "Unsupported asset class")
      ELSE IF normalized_asset_class = <<"e", "q", "u", "i", "t", "y">>
           THEN IF ValidIsin(hash_on)
                THEN [status |-> "returned",
                      value |-> ASSET_CLASSES[normalized_asset_class]
                                \o LJust(Upper(code), 4, "X")
                                \o LJust(Upper(hash_on), 13, "X")]
                ELSE Raised("ValueError", "Invalid ISIN")
      ELSE Raised("NotImplementedError", "Hash creation not implemented")

\* instrument_id
InstrumentId(asset_class, code, hash_on) ==
  LET normalized_asset_class == Lower(Strip(asset_class))
  IN  IF normalized_asset_class \notin DOMAIN ASSET_CLASSES
      THEN Raised("ValueError", "Unsupported asset class")
      ELSE IF Len(code) = 0 THEN Raised("ValueError", "Code cannot be empty")
      ELSE IF Len(code) > 4 \/ ~IsAlnum(code)
           THEN Raised("ValueError", "Code must be <= 4 alphanumerical characters")
      ELSE IF normalized_asset_class = <<"e", "q", "u", "i", "t", "y">>
           THEN IF ValidIsin(hash_on)
                THEN [status |-> "returned",
                      value |-> ASSET_CLASSES[normalized_asset_class]
                                \o LJust(Upper(code), 4, "X")
                                \o LJust(Upper(hash_on), 13, "X")]
                ELSE Raised("ValueError", "Invalid ISIN")
      ELSE Raised("NotImplementedError", "Hash creation not implemented")

\* ---- the inputs tried
AssetClassInputs ==
  { <<"e", "q", "u", "i", "t", "y">>,
    <<" ", "E", "q", "u", "i", "t", "y", " ">>,
    <<"E", "Q", "U", "I", "T", "Y">>,
    <<"c", "r", "y", "p", "t", "o">>,
    <<"e", "t", "f">>,
    <<"b", "o", "n", "d">>,
    <<>> }

CodeInputs ==
  { <<>>, <<"A", "A", "P", "L">>, <<"a", "b">>, <<"B", "T", "C">>, <<"X">>,
    <<"7">>, <<"A", "-", "B">>, <<"A", "B", "C", "D", "E">> }

Countries == { <<"U", "S">>, <<"G", "B">>, <<"D", "E">>, <<"A", "U">> }

Nsins ==
  { <<"0", "3", "7", "8", "3", "3", "1", "0", "0">>,
    <<"0", "0", "0", "2", "6", "3", "4", "9", "4">>,
    <<"0", "0", "0", "B", "A", "Y", "0", "0", "1">>,
    <<"0", "0", "0", "0", "X", "V", "G", "Z", "A">> }

\* Every string here matches the ISIN format; some pass the checksum
IsinCandidates ==
  {c \o n \o <<DigitChars[d]>> : c \in Countries, n \in Nsins, d \in 1 .. 10}

AAPL == <<"A", "A", "P", "L">>
AppleIsin == <<"U", "S", "0", "3", "7", "8", "3", "3", "1", "0", "0", "5">>

MalformedHashes ==
  { <<>>, <<"Y">>,
    <<"a", "n", "y", "t", "h", "i", "n", "g">>,
    Lower(AppleIsin),
    SubSeq(AppleIsin, 1, 11),
    AppleIsin \o <<"5">>,
    AppleIsin \o <<"\n">>,
    <<"U", "5">> \o SubSeq(AppleIsin, 3, 12),
    SubSeq(AppleIsin, 1, 11) \o <<"X">> }

HashInputs == IsinCandidates \cup MalformedHashes

\* The calls tried: the function and its arguments
IdCalls ==
  {[fn |-> "_valid_isin", isin |-> h] : h \in HashInputs} \cup
  {[fn |-> "instrument_id", asset_class |-> ac, code |-> code, hash_on |-> h] :
     ac \in AssetClassInputs, code \in CodeInputs, h \in HashInputs}

\* A call of _valid_isin
CallValidIsin ==
  /\ id_args.fn = "_valid_isin" /\ id_out.status = "none"
  /\ id_out' = [status |-> "returned", value |-> ValidIsin(id_args.isin)]
  /\ id_log' = Append(id_log, [args |-> id_args, out |-> id_out'])
  /\ UNCHANGED id_args
  /\ UNCHANGED pullerVars

\* A call of instrument_id
CallInstrumentId ==
  /\ id_args.fn = "instrument_id" /\ id_out.status = "none"
  /\ id_out' = InstrumentId(id_args.asset_class, id_args.code, id_args.hash_on)
  /\ id_log' = Append(id_log, [args |-> id_args, out |-> id_out'])
  /\ UNCHANGED id_args
  /\ UNCHANGED pullerVars

InitId ==
  /\ PullerInit
  /\ id_args \in IdCalls
  /\ id_out = [status |-> "none"]
  /\ id_log = <<>>

NextId == CallValidIsin \/ CallInstrumentId

SpecId == InitId /\ [][NextId]_vars

\* ---- several calls, one after the other, in one interpreter
MaxCalls == 3

AppleIsinWrongCheck == SubSeq(AppleIsin, 1, 11) \o <<"6">>

SeqCalls ==
  { [fn |-> "_valid_isin", isin |-> AppleIsin],
    [fn |-> "_valid_isin", isin |-> AppleIsinWrongCheck],
    [fn |-> "instrument_id", asset_class |-> <<"e", "q", "u", "i", "t", "y">>,
     code |-> AAPL, hash_on |-> AppleIsin],
    [fn |-> "instrument_id", asset_class |-> <<"e", "q", "u", "i", "t", "y">>,
     code |-> AAPL, hash_on |-> AppleIsinWrongCheck],
    [fn |-> "instrument_id", asset_class |-> <<"e", "q", "u", "i", "t", "y">>,
     code |-> <<"a", "b">>, hash_on |-> AppleIsin],
    [fn |-> "instrument_id", asset_class |-> <<"c", "r", "y", "p", "t", "o">>,
     code |-> <<"B", "T", "C">>, hash_on |-> <<"Y">>],
    [fn |-> "instrument_id", asset_class |-> <<"b", "o", "n", "d">>,
     code |-> <<"X">>, hash_on |-> <<"Y">>] }

\* A faulty variant: the module keeps the identifier it made last and hands
\* it out again
OutcomeOfCached(c) ==
  IF c.fn = "_valid_isin"
  THEN [status |-> "returned", value |-> ValidIsin(c.isin)]
  ELSE IF id_args.fn = "instrument_id" /\ id_out.status = "returned" THEN id_out
  ELSE InstrumentId(c.asset_class, c.code, c.hash_on)

\* What a call gives: both functions read their arguments and the two
\* module constants (ASSET_CLASSES, _ISIN_RE), and assign nothing outside
\* their locals
OutcomeOf(c) ==
  IF c.fn = "_valid_isin"
  THEN [status |-> "returned", value |-> ValidIsin(c.isin)]
  ELSE InstrumentId(c.asset_class, c.code, c.hash_on)

\* One more call of _valid_isin or instrument_id
Call(c) ==
  /\ Len(id_log) < MaxCalls
  /\ id_args' = c
  /\ id_out' = OutcomeOf(c)
  /\ id_log' = Append(id_log, [args |-> c, out |-> id_out'])
  /\ UNCHANGED pullerVars

NextCalls == \E c \in SeqCalls : Call(c)

SpecCalls == Init /\ [][NextCalls]_vars

\* ---- construction alone, over more ticker lists and batch sizes
NextBatch ==
  \E k \in Kinds, tk \in TickerLists(MaxSplitTickers), sd \in DateInputs,
     ed \in DateInputs, bs \in (0 - 2) .. MaxSplitBatchSize,
     mr \in 0 .. MaxRetries :
    Construct(k, tk, sd, ed, bs, mr)

SpecBatch == Init /\ [][NextBatch]_vars

\* ================================================================== claims
\* ---- reading the observed history
NumEvents(e) == Cardinality({j \in DOMAIN trace : trace[j].ev = e})

\* The index of the "start" event of the job that event number e belongs to
StartOf(e) ==
  CHOOSE b \in 1 .. e :
    trace[b].ev = "start" /\ \A j \in (b + 1) .. e : trace[j].ev # "start"

CountIn(b, e, what) == Cardinality({j \in b .. e : trace[j].ev = what})

\* histpull went through its loops and ended
LoopsEnded == pc \in {"returned", "raised"} /\ NumEvents("start") > 0

LastEvent == trace[Len(trace)]

\* C1: for both pullers, when every job of a histpull call ends Exhausted,
\* histpull returns an empty record set and raises no error.
C1_AllExhaustedReturnsEmpty ==
  (LoopsEnded /\ max_retries >= 1 /\ NumEvents("succeeded") = 0)
    => (outcome.status = "returned" /\ Len(outcome.value) = 0)

\* C2: with max_retries >= 1, a job whose attempts all fail (validation
\* returning false or an exception, in any mix) has made exactly max_retries
\* adapter calls when it becomes Exhausted, each failure having used one
\* attempt, and it has put no frame into the result collection.
C2_ExhaustedAfterMaxRetriesCalls ==
  /\ \A e \in DOMAIN trace :
       (trace[e].ev = "exhausted" /\ max_retries >= 1)
         => /\ CountIn(StartOf(e), e, "call") = max_retries
            /\ CountIn(StartOf(e), e, "succeeded") = 0
  /\ (pc = "retry" /\ max_retries >= 1)
       => CountIn(StartOf(Len(trace)), Len(trace), "call") = attempt - 1
  /\ Len(frames) = NumEvents("succeeded")

C2_Witness ==
  /\ trace # <<>> /\ LastEvent.ev = "exhausted"
  /\ max_retries = 2 /\ kind = "LSEG"
  /\ last_exception = "ConnectionError" /\ lastFailure = "invalid"

\* The rows the puller makes of an accepted response for the job of event ev
RowsOf(resp, ev) ==
  IF kind = "LSEG" THEN LsegNormalize(resp, ev.unit[1])
  ELSE DownloadAndProcess(resp, batches[ev.bi], ev.unit).rows

\* C3: a job whose adapter fails k < max_retries times and then returns valid
\* data ends Succeeded after exactly k + 1 adapter calls, with one pause
\* after each of the k failed calls and before the next call, and its
\* records are those normalised from the response of the last call.
C3_SucceedsAfterKFailures ==
  /\ \A e \in DOMAIN trace :
       trace[e].ev = "succeeded" =>
         LET b == StartOf(e)
             k == CountIn(b, e, "call") - 1
         IN  /\ k + 1 <= max_retries
             /\ e = b + 2 * k + 2
             /\ \A j \in 1 .. k :
                  trace[b + 2 * j - 1].ev = "call" /\ trace[b + 2 * j].ev = "pause"
             /\ trace[e - 1].ev = "call"
  /\ (pc = "retry") =>
       LET b == StartOf(Len(trace))
       IN  /\ Len(trace) = b + 2 * (attempt - 1)
           /\ \A j \in 1 .. (attempt - 1) :
                trace[b + 2 * j - 1].ev = "call" /\ trace[b + 2 * j].ev = "pause"
  /\ (Len(trace) >= 2 /\ trace[Len(trace) - 1].ev = "succeeded")
       => frames[Len(frames)] = RowsOf(lastData, LastEvent)

C3_Witness ==
  /\ kind = "LSEG" /\ max_retries = 2 /\ Len(trace) = 6
  /\ trace[1].ev = "start" /\ trace[2].ev = "call" /\ trace[3].ev = "pause"
  /\ trace[4].ev = "call" /\ trace[5].ev = "succeeded"
  /\ Len(frames) = 1 /\ Len(frames[1]) > 0

\* The number of jobs of the call: one per field and batch (LSEG), one per
\* batch (Yahoo)
NumJobs == IF kind = "LSEG" THEN Len(fields) * Len(batches) ELSE Len(batches)

\* C4: failure isolation.  A job that ends Exhausted leaves the result
\* collection as it was (it adds no row and changes none), the jobs after it
\* are still entered, and when at least one job succeeds the result handed to
\* the caller is the rows of the Succeeded jobs, in order.
C4_StateInv ==
  /\ Len(frames) = NumEvents("succeeded")
  /\ LoopsEnded => NumEvents("start") = NumJobs
  /\ (LoopsEnded /\ max_retries >= 1)
       => \A b \in DOMAIN trace : trace[b].ev = "start" => trace[b + 1].ev = "call"
  /\ (LoopsEnded /\ NumEvents("succeeded") > 0)
       => /\ outcome.status = "returned"
          /\ outcome.value = Flatten(frames)
          /\ Len(outcome.value) > 0

C4_ExhaustedStep ==
  (Len(trace') = Len(trace) + 1 /\ trace'[Len(trace')].ev = "exhausted")
    => frames' = frames

C4_AppendOnly ==
  \/ frames' = frames
  \/ pc = "idle"
  \/ /\ Len(frames') = Len(frames) + 1
     /\ SubSeq(frames', 1, Len(frames)) = frames

C4_FailureIsolation ==
  /\ []C4_StateInv
  /\ [][C4_ExhaustedStep /\ C4_AppendOnly]_vars

C4_Witness ==
  /\ pc = "returned" /\ max_retries >= 1
  /\ \E e, g, h \in DOMAIN trace :
       /\ e < g /\ g < h
       /\ trace[e].ev = "exhausted" /\ trace[g].ev = "succeeded"
       /\ trace[h].ev = "exhausted"

\* C5: if any requested field, at any position of the list, is not in the
\* Field Registry, histpull fails with the unknown-field error before any
\* job: no adapter call and no pause has happened, then or later.
C5_UnknownFieldFailsFast ==
  (\E i \in DOMAIN fields : fields[i] \notin DOMAIN FIELDS)
    => /\ pc = "raised"
       /\ outcome.exc = "ValueError" /\ outcome.msg = "Field not supported"
       /\ NumEvents("call") = 0 /\ NumEvents("pause") = 0
       /\ trace = <<>> /\ frames = <<>>

C5_Witness ==
  /\ pc = "raised" /\ fields = <<"close", "volume">>
  /\ outcome.exc = "ValueError" /\ trace = <<>>

\* The response holds a value that is not missing for every ticker of the
\* batch and every field of the unit
Covers(resp, batch, unit) ==
  /\ resp.kind = "frame"
  /\ \A i \in DOMAIN batch :
       /\ IsIn(batch[i], resp.cols)
       /\ LET c == IndexOf(batch[i], resp.cols)
          IN  IF kind = "LSEG" THEN NotNaCount(resp, c) > 0
              ELSE \A u \in DOMAIN unit :
                     \E r \in YfinKeptRows(resp, unit) :
                       ~IsNa(YfinValue(resp, c, unit[u], r))

HasRecord(rows, ticker, field) ==
  \E k \in DOMAIN rows : rows[k].identifier = ticker /\ rows[k].field = field

\* Every response a job of this model succeeds on covers its batch and unit
AcceptedResponsesCover ==
  (Len(trace) >= 2 /\ trace[Len(trace) - 1].ev = "succeeded")
    => Covers(lastData, batches[LastEvent.bi], LastEvent.unit)

\* C6: for both pullers, when every job succeeds on a response holding a
\* value for every requested ticker and field, the records hold at least one
\* record for every ticker and every requested field: no instrument of a
\* batch is left out of the batch's records, nor of the returned record set.
C6_EveryTickerAndFieldPresent ==
  /\ (/\ Len(trace) >= 2 /\ trace[Len(trace) - 1].ev = "succeeded"
      /\ Covers(lastData, batches[LastEvent.bi], LastEvent.unit))
       => \A i \in DOMAIN batches[LastEvent.bi] : \A u \in DOMAIN LastEvent.unit :
            HasRecord(frames[Len(frames)], batches[LastEvent.bi][i], LastEvent.unit[u])
  /\ (pc = "returned" /\ NumEvents("exhausted") = 0)
       => \A i \in DOMAIN tickers : \A u \in DOMAIN fields :
            HasRecord(outcome.value, tickers[i], fields[u])

\* C7: for every ticker list of length N and every positive batch_size, the
\* batches of _split_batches concatenate to the ticker list, in order; there
\* are ceil(N / batch_size) of them; each holds between 1 and batch_size
\* tickers; and for N = 0 there is no batch at all.
C7_SplitBatchesPartition ==
  (pc = "idle" /\ batch_size > 0)
    => /\ Flatten(batches) = tickers
       /\ Len(batches) * batch_size >= Len(tickers)
       /\ (Len(batches) - 1) * batch_size < Len(tickers)
       /\ \A i \in DOMAIN batches :
            Len(batches[i]) >= 1 /\ Len(batches[i]) <= batch_size
       /\ (Len(tickers) = 0 => batches = <<>>)

C7_Witness ==
  /\ pc = "idle" /\ batch_size = 2 /\ Len(tickers) = 5
  /\ Len(batches) = 3 /\ batches[3] = <<tickers[5]>>

\* C8: a batch_size <= 0 is rejected with an error: no batch sequence is
\* produced and no puller is constructed with such a batch size.
C8_NonPositiveBatchSizeRejected ==
  (pc # "new" /\ batch_size <= 0)
    => (pc = "raised" /\ outcome.status = "raised" /\ outcome.at = "__init__")

\* The checksum in words: the digit string of the ISIN read from the right,
\* position 1 being the last character; a digit at a doubled position counts
\* as twice itself, minus 9 when that exceeds 9
DigitWeight(d, doubled) ==
  IF ~doubled THEN d ELSE IF 2 * d > 9 THEN 2 * d - 9 ELSE 2 * d

RECURSIVE ChecksumFrom(_, _, _)
ChecksumFrom(digits, j, firstDoubled) ==
  IF j > Len(digits) THEN 0
  ELSE DigitWeight(digits[Len(digits) - j + 1],
                   IF firstDoubled THEN j % 2 = 1 ELSE j % 2 = 0)
       + ChecksumFrom(digits, j + 1, firstDoubled)

ChecksumDoublingFromFirst(isin) ==
  ChecksumFrom(Expanded(isin), 1, TRUE) % 10 = 0

ChecksumDoublingFromSecond(isin) ==
  ChecksumFrom(Expanded(isin), 1, FALSE) % 10 = 0

ValidIsinCalled ==
  /\ id_args.fn = "_valid_isin" /\ id_out.status = "returned"
  /\ IsinReFullmatch(id_args.isin)

\* C9 as stated: for every 12-character string in the ISIN format,
\* _valid_isin accepts it iff the checksum holds with the doubling starting
\* on the first digit processed (the last character).
C9_DoublingStartsOnLastCharacter ==
  ValidIsinCalled => (id_out.value <=> ChecksumDoublingFromFirst(id_args.isin))

\* C9 amended: for every 12-character string in the ISIN format, _valid_isin
\* accepts it iff the checksum holds with the doubling starting on the second
\* digit processed: the last character, the check digit, is not doubled.
C9_DoublingStartsOnSecondDigit ==
  ValidIsinCalled => (id_out.value <=> ChecksumDoublingFromSecond(id_args.isin))

C9_Witness ==
  /\ ValidIsinCalled /\ id_args.isin = AppleIsin /\ id_out.value = TRUE
  /\ ~ChecksumDoublingFromFirst(AppleIsin)

Equity == <<"e", "q", "u", "i", "t", "y">>

EquityCallWithValidInputs ==
  /\ id_args.fn = "instrument_id" /\ id_out.status # "none"
  /\ Lower(Strip(id_args.asset_class)) = Equity
  /\ Len(id_args.code) >= 1 /\ Len(id_args.code) <= 4 /\ IsAlnum(id_args.code)
  /\ IsinReFullmatch(id_args.hash_on)
  /\ ChecksumDoublingFromSecond(id_args.hash_on)

\* C10: for asset class equity, a valid code and a hash_source that passes
\* the ISIN validation, instrument_id returns exactly 20 characters: EQU, the
\* uppercased code padded with X to 4, the ISIN padded with X to 13; and
\* ("equity", "AAPL", "US0378331005") gives "EQUAAPLUS0378331005X".
C10_EquityIdentifierLayout ==
  EquityCallWithValidInputs
    => /\ id_out.status = "returned"
       /\ Len(id_out.value) = 20
       /\ SubSeq(id_out.value, 1, 3) = <<"E", "Q", "U">>
       /\ \A i \in 1 .. 4 :
            id_out.value[3 + i] =
              IF i <= Len(id_args.code) THEN UpperCh(id_args.code[i]) ELSE "X"
       /\ \A i \in 1 .. 13 :
            id_out.value[7 + i] =
              IF i <= Len(id_args.hash_on) THEN id_args.hash_on[i] ELSE "X"
       /\ (id_args.asset_class = Equity /\ id_args.code = AAPL
             /\ id_args.hash_on = AppleIsin)
            => id_out.value = <<"E", "Q", "U", "A", "A", "P", "L", "U", "S", "0",
                                "3", "7", "8", "3", "3", "1", "0", "0", "5", "X">>

C10_Witness ==
  /\ EquityCallWithValidInputs /\ id_out.status = "returned"
  /\ id_args.code = <<"a", "b">> /\ id_args.hash_on = AppleIsin
  /\ SubSeq(id_out.value, 1, 7) = <<"E", "Q", "U", "A", "B", "X", "X">>

\* An instrument_id call that ended, and what it was given
IdCalled == id_args.fn = "instrument_id" /\ id_out.status # "none"

NormalizedClass == Lower(Strip(id_args.asset_class))

CodeIsValid ==
  Len(id_args.code) >= 1 /\ Len(id_args.code) <= 4 /\ IsAlnum(id_args.code)

\* What tells one error outcome from another: the exception class and the
\* message (in the code the message of the ISIN error goes on with the
\* hash_on text itself, which the caller already has)
ErrorKind(out) == <<out.exc, out.msg>>

\* C11: for asset class equity with a valid code, a hash_source that
\* matches the ISIN format but fails the checksum ends in an error outcome
\* that can be told from the one of a hash_source that does not match the
\* format (InvalidChecksum against InvalidFormat).
C11_FormatAndChecksumDistinguished ==
  (/\ IdCalled /\ NormalizedClass = Equity /\ CodeIsValid
   /\ IsinReFullmatch(id_args.hash_on)
   /\ ~ChecksumDoublingFromSecond(id_args.hash_on))
    => /\ id_out.status = "raised"
       /\ \A h \in MalformedHashes :
            ErrorKind(id_out) #
              ErrorKind(InstrumentId(id_args.asset_class, id_args.code, h))

\* The inputs C12 names as the only ones that give an identifier
IdInputsValid ==
  /\ NormalizedClass = Equity
  /\ CodeIsValid
  /\ IsinReFullmatch(id_args.hash_on)
  /\ ChecksumDoublingFromSecond(id_args.hash_on)

\* C12: instrument_id returns an identifier exactly when the asset class
\* normalises to equity, the code is non-empty, at most 4 characters and
\* alphanumeric, and hash_source passes the ISIN format and the checksum;
\* every other call ends in an error outcome that carries no identifier.
C12_IdentifierOnlyForValidInputs ==
  IdCalled
    => /\ id_out.status \in {"returned", "raised"}
       /\ (id_out.status = "returned") <=> IdInputsValid
       /\ (id_out.status = "raised") => DOMAIN id_out = {"status", "exc", "msg"}

C12_Witness ==
  /\ IdCalled /\ id_out.status = "raised"
  /\ id_args.asset_class = Equity /\ id_args.code = AAPL
  /\ id_args.hash_on = AppleIsinWrongCheck

SupportedClasses ==
  { <<"e", "q", "u", "i", "t", "y">>, <<"e", "t", "f">>,
    <<"i", "n", "d", "e", "x">>, <<"c", "r", "y", "p", "t", "o">>,
    <<"c", "u", "r", "r", "e", "n", "c", "y">>,
    <<"c", "o", "m", "m", "o", "d", "i", "t", "y">> }

\* C13: instrument_id checks the asset class, then the code, then
\* hash_source, and reports the first check that fails: an asset class
\* outside the six supported ones (after trim and lowercase) gives the
\* unsupported-asset-class error whatever code and hash_source are; a
\* supported class with a bad code gives a code error whatever hash_source
\* is; a supported class other than equity with a valid code gives
\* NotImplementedError whatever hash_source is.
C13_FirstFailingCheckReported ==
  IdCalled
    => /\ (NormalizedClass \notin SupportedClasses)
            => id_out = Raised("ValueError", "Unsupported asset class")
       /\ (NormalizedClass \in SupportedClasses /\ ~CodeIsValid)
            => /\ id_out.status = "raised" /\ id_out.exc = "ValueError"
               /\ id_out.msg \in {"Code cannot be empty",
                                  "Code must be <= 4 alphanumerical characters"}
       /\ (NormalizedClass \in SupportedClasses \ {Equity} /\ CodeIsValid)
            => /\ id_out.status = "raised"
               /\ id_out.exc = "NotImplementedError"

C13_Witness ==
  /\ IdCalled /\ id_args.asset_class = <<"b", "o", "n", "d">>
  /\ id_args.code = <<>> /\ ~IsinReFullmatch(id_args.hash_on)
  /\ id_out = Raised("ValueError", "Unsupported asset class")

\* The constructor raised: no puller object reaches the caller
ConstructorRaised == pc = "raised" /\ outcome.at = "__init__"

IsCalendarDate(d) ==
  /\ d.year >= 1 /\ d.month \in 1 .. 12
  /\ d.day \in 1 .. DaysInMonth(d.year, d.month)

\* C14: the construction parameters are validated at construction: an
\* empty ticker list is rejected by the constructor, before any histpull
\* call, and a start or end date that is not a valid date makes the
\* constructor fail, so that a constructed puller holds two calendar dates.
C14_ConstructionParametersValidated ==
  /\ (pc # "new" /\ tickers = <<>>) => ConstructorRaised
  /\ (pc # "new" /\ ~ConstructorRaised)
       => IsCalendarDate(sdate) /\ IsCalendarDate(edate)
  /\ (ConstructorRaised /\ batch_size = 0 /\ outcome.exc = "ValueError")
       => (sdate = NoDate \/ edate = NoDate)

JustExhausted == trace # <<>> /\ LastEvent.ev = "exhausted"

\* The cause the RuntimeError of an Exhausted job is raised from
\* (`raise RuntimeError(...) from last_exception`)
ReportedCause == last_exception

\* C16: when a job becomes Exhausted, the cause reported with the exhaustion
\* is the cause of the last failed attempt of the job: the exception of that
\* attempt when it raised, and, when it failed validation, not the exception
\* of an earlier attempt.
C16_ReportedCauseIsLastFailure ==
  (JustExhausted /\ max_retries >= 1)
    => /\ (lastFailure # "invalid") => ReportedCause = lastFailure
       /\ (lastFailure = "invalid") => ReportedCause = None

JobEnded(j) == trace[j].ev \in {"succeeded", "exhausted"}

\* The loop position that follows position (f, b) in submission order
NextInOrder(f, b) ==
  IF kind = "LSEG" /\ b >= Len(batches) THEN <<f + 1, 1>> ELSE <<f, b + 1>>

IsStartAt(i) == trace[i].ev = "start"

\* The positions of the job starts in the history, in order
StartIdx == SelectSeq([i \in 1 .. Len(trace) |-> i], IsStartAt)

\* C17: jobs run one at a time in submission order.  The first job is the
\* first field and first batch; every event up to the next start belongs to
\* the field and batch of the job that started; once a job has ended
\* Succeeded or Exhausted nothing but a pause follows before the next start;
\* the next job starts only after that end, and it is the next one in
\* submission order: LSEGPuller goes field by field in the order asked and
\* batch by batch within a field, YFinPuller batch by batch.
C17_JobsOneAtATimeInOrder ==
  LET S == StartIdx
  IN  /\ trace # <<>>
           => /\ S # <<>> /\ S[1] = 1
              /\ trace[1].fi = 1 /\ trace[1].bi = 1
      /\ \A k \in DOMAIN S :
           LET a == S[k]
               z == IF k < Len(S) THEN S[k + 1] - 1 ELSE Len(trace)
           IN  /\ trace[a].bi \in DOMAIN batches
               /\ trace[a].unit =
                    IF kind = "LSEG" THEN <<fields[trace[a].fi]>> ELSE fields
               /\ \A e \in (a + 1) .. z :
                    /\ trace[e].fi = trace[a].fi /\ trace[e].bi = trace[a].bi
                    /\ trace[e].unit = trace[a].unit
                    /\ JobEnded(e)
                         => \A i \in (e + 1) .. z : trace[i].ev = "pause"
               /\ (k < Len(S))
                    => /\ \E j \in (a + 1) .. z : JobEnded(j)
                       /\ <<trace[z + 1].fi, trace[z + 1].bi>>
                            = NextInOrder(trace[a].fi, trace[a].bi)

C17_Witness ==
  /\ kind = "LSEG" /\ pc = "returned" /\ max_retries = 2
  /\ fields = <<"close", "totret">> /\ Len(batches) = 2
  /\ NumEvents("start") = 4 /\ NumEvents("exhausted") >= 1
  /\ \E e \in DOMAIN trace :
       /\ trace[e].ev = "start" /\ trace[e].fi = 2 /\ trace[e].bi = 1
       /\ trace[e - 1].ev = "exhausted" /\ trace[e - 1].fi = 1
       /\ trace[e - 1].bi = 2

\* Every record there is: those of the frames collected so far and those of
\* the record set handed to the caller
EmittedRecords ==
  UNION {{frames[i][k] : k \in DOMAIN frames[i]} : i \in DOMAIN frames}
    \cup (IF pc = "returned"
          THEN {outcome.value[k] : k \in DOMAIN outcome.value} ELSE {})

\* The scales of the Field Registry, as the spec's registry lists them
RegistryScale(f) == IF f = "close" THEN "1" ELSE "0.01"

\* C18: every record of either puller has a field that is a key of the
\* Field Registry, and among the fields asked for, and its scale is the
\* registry's scale for that field; in every frame collected and in the
\* returned record set, whatever jobs succeeded or were exhausted before.
C18_ScaleMatchesRegistry ==
  \A rec \in EmittedRecords :
    /\ rec.field \in {"close", "totret"}
    /\ IsIn(rec.field, fields)
    /\ rec.scale = RegistryScale(rec.field)
    /\ rec.scale = FIELDS[rec.field].scale

C18_Witness ==
  /\ kind = "YFIN" /\ pc = "returned" /\ fields = <<"close", "totret">>
  /\ NumEvents("exhausted") >= 1
  /\ \E r1, r2 \in EmittedRecords :
       /\ r1.field = "close" /\ r1.scale = "1"
       /\ r2.field = "totret" /\ r2.scale = "0.01"

\* C19: no record of either puller has a missing value: where the accepted
\* response holds a missing value, normalisation emits no record.
C19_NoMissingValueEmitted ==
  \A rec \in EmittedRecords : ~IsNa(rec.value)

\* histpull got past its field check
FieldsAccepted == pc \in {"loop", "retry", "returned"} \/ trace # <<>>

\* C20: with F valid fields and B batches, a histpull call of LSEGPuller
\* runs F * B jobs, one per field and batch, each adapter call asking for
\* one field; a call of YFinPuller runs B jobs, one per batch, each adapter
\* call asking for all F fields; no job (field position and batch) starts
\* twice.
C20_JobCount ==
  LET S == StartIdx
  IN  FieldsAccepted
        => /\ Cardinality({<<trace[S[k]].fi, trace[S[k]].bi>> : k \in DOMAIN S})
                = Len(S)
           /\ \A e \in DOMAIN trace :
                trace[e].ev = "call"
                  => Len(trace[e].unit) = IF kind = "LSEG" THEN 1 ELSE Len(fields)
           /\ Len(S) <= NumJobs
           /\ (pc \in {"returned", "raised"}) => Len(S) = NumJobs
           /\ NumJobs = IF kind = "LSEG" THEN Len(fields) * Len(batches)
                        ELSE Len(batches)

C20_Witness ==
  /\ pc = "returned" /\ kind = "LSEG" /\ Len(fields) = 2 /\ Len(batches) = 2
  /\ NumEvents("start") = 4 /\ NumEvents("call") > 4

\* The adapter call at position e of the history failed: the job did not
\* end Succeeded on it
FailedCallAt(e) ==
  /\ trace[e].ev = "call"
  /\ ~(e < Len(trace) /\ trace[e + 1].ev = "succeeded")

NumFailedCalls == Cardinality({e \in DOMAIN trace : FailedCallAt(e)})

\* The kinds of the events a step adds to the history
AddedEvents ==
  [k \in 1 .. (Len(trace') - Len(trace)) |-> trace'[Len(trace) + k].ev]

C21_StateInv ==
  /\ NumEvents("pause") = NumFailedCalls + NumEvents("succeeded")
  /\ \A e \in DOMAIN trace :
       /\ FailedCallAt(e)
            => e < Len(trace) /\ trace[e + 1].ev = "pause"
       /\ trace[e].ev = "succeeded"
            => /\ e < Len(trace) /\ trace[e + 1].ev = "pause"
               /\ e > 1 /\ trace[e - 1].ev = "call"
       /\ trace[e].ev = "pause"
            => e > 1 /\ trace[e - 1].ev \in {"call", "succeeded"}
       /\ trace[e].ev = "exhausted"
            => e > 1 /\ trace[e - 1].ev \in {"pause", "start"}
  /\ (pc \in {"returned", "raised"} /\ trace # <<>>)
       => LastEvent.ev \in {"pause", "exhausted"}

C21_Step ==
  /\ SubSeq(trace', 1, Len(trace)) = trace
  /\ AddedEvents \in { <<>>, <<"start">>, <<"exhausted">>, <<"call", "pause">>,
                       <<"call", "succeeded", "pause">> }

\* C21: in a histpull call exactly one pause follows every failed attempt,
\* the last failed attempt of a job that then becomes Exhausted included,
\* and exactly one pause follows every Succeeded job, the last job of the
\* call included; the pauses number the failed attempts plus the Succeeded
\* jobs; and every adapter call is followed by its pause before anything
\* else happens, so that no adapter call comes straight after another.
C21_OnePausePerFailureAndSuccess ==
  /\ []C21_StateInv
  /\ [][C21_Step]_vars

C21_Witness ==
  /\ pc = "returned" /\ max_retries = 2 /\ Len(trace) >= 9
  /\ trace[Len(trace)].ev = "pause" /\ trace[Len(trace) - 1].ev = "succeeded"
  /\ \E e \in DOMAIN trace :
       /\ trace[e].ev = "exhausted" /\ trace[e - 1].ev = "pause"
       /\ trace[e - 2].ev = "call"
  /\ NumEvents("pause") = NumEvents("call")

\* The number of adapter calls among the events a .. z of the history
CallsIn(a, z) == Cardinality({e \in a .. z : trace[e].ev = "call"})

C22_StateInv ==
  LET S == StartIdx
  IN  /\ \A k \in DOMAIN S :
           CallsIn(S[k], IF k < Len(S) THEN S[k + 1] - 1 ELSE Len(trace))
             <= max_retries
      /\ NumEvents("call") <= NumJobs * max_retries
      /\ (pc = "retry") => attempt >= 1 /\ attempt <= max_retries + 1

\* Within a job the attempt counter only goes up, by one a failed attempt
C22_AttemptGrows ==
  (pc = "retry" /\ pc' = "retry") => attempt' = attempt + 1

HistpullRunning == pc \in {"loop", "retry"}

HistpullEnded == pc \in {"returned", "raised"}

\* C22: provided every adapter call returns or raises, every histpull call
\* ends (with its record set or with an exception), and every job that is
\* entered reaches Succeeded or Exhausted, after at most max_retries adapter
\* calls; the attempt counter of a job only increases; and the whole call
\* makes at most (number of jobs) * max_retries adapter calls.
C22_HistpullTerminates ==
  /\ []C22_StateInv
  /\ [][C22_AttemptGrows]_vars
  /\ (pc = "retry") ~> (pc # "retry")
  /\ HistpullRunning ~> HistpullEnded

C22_Witness ==
  /\ HistpullEnded /\ kind = "LSEG" /\ max_retries = 2
  /\ Len(fields) = 2 /\ Len(batches) = 2
  /\ NumEvents("call") = 8 /\ NumEvents("exhausted") = 4

====
